---- MODULE Spec2Model ----
(***************************************************************************)
(* Contact-form backend (src/index.js, with the Contact schema of          *)
(* src/unnamed/part_000): POST /api/contact and GET /api/contacts over a   *)
(* primary store (MongoDB through mongoose) and the in-memory list         *)
(* fallbackContacts.                                                       *)
(*                                                                         *)
(* JavaScript strings are modelled as sequences of one-character strings,  *)
(* so that length, trimming, lower-casing and the two email patterns are   *)
(* computed rather than assumed.  A handler runs atomically from its entry *)
(* to its first await and from the resumption of an await to its response  *)
(* (Node runs one callback at a time); the awaited primary operations are  *)
(* the only suspension points.  POST requests run concurrently; the admin  *)
(* listing is one client, which sends its next GET after the previous one  *)
(* was answered.                                                           *)
(***************************************************************************)
EXTENDS Integers, Sequences, FiniteSets

\* ------------------------------------------------------------------ bounds
MaxReq   == 2     \* POST /api/contact requests in one behaviour
MaxClock == 2     \* last wall-clock millisecond of a behaviour

Reqs == 1..MaxReq

\* ------------------------------------------------------- strings of the code
Undefined == <<"undefined">>    \* a field absent from req.body

Rep(c, n) == [i \in 1..n |-> c]

\* !v of JavaScript for a string-or-undefined value
Falsy(v) == v = Undefined \/ v = <<>>

Whitespace == {" ", "\t", "\n", "\r"}
Digits     == {"0", "1", "2", "3", "4", "5", "6", "7", "8", "9"}
UpperSeq   == <<"A","B","C","D","E","F","G","H","I","J","K","L","M",
                "N","O","P","Q","R","S","T","U","V","W","X","Y","Z">>
LowerSeq   == <<"a","b","c","d","e","f","g","h","i","j","k","l","m",
                "n","o","p","q","r","s","t","u","v","w","x","y","z">>
Letters    == {UpperSeq[i] : i \in 1..26} \cup {LowerSeq[i] : i \in 1..26}
WordChars  == Letters \cup Digits \cup {"_"}

\* String.prototype.trim (schema option trim: true)
RECURSIVE TrimLeft(_)
TrimLeft(s) ==
  IF s # <<>> /\ Head(s) \in Whitespace THEN TrimLeft(Tail(s)) ELSE s

RECURSIVE TrimRight(_)
TrimRight(s) ==
  IF s # <<>> /\ s[Len(s)] \in Whitespace
    THEN TrimRight(SubSeq(s, 1, Len(s) - 1)) ELSE s

Trim(s) == TrimRight(TrimLeft(s))

\* String.prototype.toLowerCase (schema option lowercase: true)
LowerChar(c) ==
  IF \E i \in 1..26 : UpperSeq[i] = c
    THEN LowerSeq[CHOOSE i \in 1..26 : UpperSeq[i] = c]
    ELSE c

ToLowerCase(s) == [i \in 1..Len(s) |-> LowerChar(s[i])]

\* Number.prototype.toString for a non-negative integer
DigitSeq == <<"0", "1", "2", "3", "4", "5", "6", "7", "8", "9">>

RECURSIVE ToString(_)
ToString(n) ==
  IF n < 10 THEN <<DigitSeq[n + 1]>>
            ELSE ToString(n \div 10) \o <<DigitSeq[(n % 10) + 1]>>

\* ------------------------------------------------ the handler's own checks
\* the check without its last operand
MissingRequiredNoMessage(b) ==
  Falsy(b.name) \/ Falsy(b.email) \/ Falsy(b.service)

\* index.js:84  if (!name || !email || !service || !message)
MissingRequired(b) ==
  Falsy(b.name) \/ Falsy(b.email) \/ Falsy(b.service) \/ Falsy(b.message)

\* [^\s@]+
NoSpaceAt(s) ==
  /\ s # <<>>
  /\ \A i \in 1..Len(s) : s[i] \notin Whitespace /\ s[i] # "@"

\* the pattern without its dot: /^[^\s@]+@[^\s@]+$/
EmailRegexTestNoDot(e) ==
  \E i \in 1..Len(e) :
    /\ e[i] = "@"
    /\ NoSpaceAt(SubSeq(e, 1, i - 1))
    /\ NoSpaceAt(SubSeq(e, i + 1, Len(e)))

\* index.js:92  /^[^\s@]+@[^\s@]+\.[^\s@]+$/ .test(email)
EmailRegexTest(e) ==
  \E i \in 1..Len(e) : \E j \in (i + 1)..Len(e) :
    /\ e[i] = "@"
    /\ e[j] = "."
    /\ NoSpaceAt(SubSeq(e, 1, i - 1))
    /\ NoSpaceAt(SubSeq(e, i + 1, j - 1))
    /\ NoSpaceAt(SubSeq(e, j + 1, Len(e)))

\* ------------------------------------------------------ the Contact schema
\* \w+([.-]?\w+)* : word characters in runs separated by single '.' or '-'
WordRuns(s) ==
  /\ s # <<>>
  /\ \A i \in 1..Len(s) : s[i] \in WordChars \cup {".", "-"}
  /\ s[1] \in WordChars
  /\ s[Len(s)] \in WordChars
  /\ \A i \in 1..(Len(s) - 1) : s[i] \in WordChars \/ s[i + 1] \in WordChars

\* (\.\w{2,3})+
RECURSIVE DotSuffixes(_)
DotSuffixes(s) ==
  \E n \in {2, 3} :
    /\ Len(s) >= n + 1
    /\ s[1] = "."
    /\ \A i \in 2..(n + 1) : s[i] \in WordChars
    /\ (Len(s) = n + 1 \/ DotSuffixes(SubSeq(s, n + 2, Len(s))))

\* part_000:16  /^\w+([.-]?\w+)*@\w+([.-]?\w+)*(\.\w{2,3})+$/
SchemaEmailMatch(e) ==
  \E i \in 1..Len(e) : \E k \in (i + 1)..Len(e) :
    /\ e[i] = "@"
    /\ WordRuns(SubSeq(e, 1, i - 1))
    /\ WordRuns(SubSeq(e, i + 1, k))
    /\ DotSuffixes(SubSeq(e, k + 1, Len(e)))

\* part_000:23  !v || /^[\+]?[1-9][\d]{0,15}$/.test(v)
PhoneValidator(v) ==
  \/ Falsy(v)
  \/ LET d == IF Head(v) = "+" THEN Tail(v) ELSE v
     IN  /\ Len(d) >= 1
         /\ Len(d) <= 16
         /\ d[1] \in Digits \ {"0"}
         /\ \A i \in 2..Len(d) : d[i] \in Digits

InteriorPainting == <<"I","n","t","e","r","i","o","r"," ","P","a","i","n","t","i","n","g">>
ExteriorPainting == <<"E","x","t","e","r","i","o","r"," ","P","a","i","n","t","i","n","g">>
Waterproofing    == <<"W","a","t","e","r","p","r","o","o","f","i","n","g">>
POPWork          == <<"P","O","P"," ","W","o","r","k">>
TileInstallation == <<"T","i","l","e"," ","I","n","s","t","a","l","l","a","t","i","o","n">>
CivilWork        == <<"C","i","v","i","l"," ","W","o","r","k">>
CarpenterWork    == <<"C","a","r","p","e","n","t","e","r"," ","W","o","r","k">>

ServiceEnum ==
  {InteriorPainting, ExteriorPainting, Waterproofing, POPWork,
   TileInstallation, CivilWork, CarpenterWork}

NameMinLength    == 2
NameMaxLength    == 50
MessageMinLength == 10
MessageMaxLength == 1000

\* the value mongoose stores for a String path: setters trim / lowercase
CastTrim(v)  == IF v = Undefined THEN Undefined ELSE Trim(v)
CastEmail(v) == IF v = Undefined THEN Undefined ELSE ToLowerCase(Trim(v))

\* document validation run by Contact.create before the insert
SchemaValid(b) ==
  /\ ~Falsy(CastTrim(b.name))
  /\ Len(CastTrim(b.name)) >= NameMinLength
  /\ Len(CastTrim(b.name)) <= NameMaxLength
  /\ ~Falsy(CastEmail(b.email))
  /\ SchemaEmailMatch(CastEmail(b.email))
  /\ PhoneValidator(CastTrim(b.phone))
  /\ ~Falsy(CastTrim(b.service))
  /\ CastTrim(b.service) \in ServiceEnum
  /\ ~Falsy(CastTrim(b.message))
  /\ Len(CastTrim(b.message)) >= MessageMinLength
  /\ Len(CastTrim(b.message)) <= MessageMaxLength

\* ------------------------------------------------------------ request bodies
Jo          == <<"J","o">>
Ann         == <<"A","n","n">>
JoEmail     == <<"j","o","@","x",".","c","o","m">>
AnnEmail    == <<"A","n","n","@","Y",".","o","r","g">>
NotAnEmail  == <<"n","o","t","-","a","n","-","e","m","a","i","l">>
AnnPhone    == <<"+","9","1","9","8">>
Plumbing    == <<"P","l","u","m","b","i","n","g">>
CallMeBack  == <<"p","l","e","a","s","e"," ","c","a","l","l"," ","m","e"," ",
                 "b","a","c","k"," ","s","o","o","n">>
PaintQuote  == <<" ","q","u","o","t","e"," ","f","o","r"," ","t","w","o"," ",
                 "r","o","o","m","s"," ">>

MkBody(n, e, ph, s, m) ==
  [name |-> n, email |-> e, phone |-> ph, service |-> s, message |-> m]

BodyJo        == MkBody(Jo, JoEmail, Undefined, CivilWork, CallMeBack)
BodyAnn       == MkBody(Ann, AnnEmail, AnnPhone, POPWork, PaintQuote)
BodyPlumbing  == MkBody(Jo, JoEmail, Undefined, Plumbing, CallMeBack)
BodyNoMessage == MkBody(Jo, JoEmail, Undefined, CivilWork, Undefined)
BodyBadEmail  == MkBody(Jo, NotAnEmail, Undefined, CivilWork, CallMeBack)

\* the bodies of the concurrent specification
Bodies == {BodyJo, BodyPlumbing, BodyNoMessage, BodyBadEmail}

\* ------------------------------------------------------------------- state
VARIABLES
  readyState,        \* mongoose.connection.readyState: 0 disconnected,
                     \* 1 connected, 2 connecting, 3 disconnecting
  clock,             \* the last millisecond the program read (Date.now())
  fallbackContacts,  \* index.js:49, the in-memory list
  primaryContacts,   \* the documents of the Contact collection, as inserted
  oidCounter,        \* ObjectIds generated so far
  pc,                \* per POST request: "idle", "awaitCreate", "done"
  body,              \* per POST request: req.body
  doc,               \* per POST request: the document handed to Contact.create
  res,               \* per POST request: the response sent
  lpc,               \* the admin's GET request: "idle", "awaitFind"
  listOut,           \* the GET response the last step sent, if it sent one
  lafter,            \* history: POST requests answered before the GET began
  limm,              \* history: the save the GET immediately follows, or 0
  lastSaved          \* history: the request whose save was the last store event

vars == <<readyState, clock, fallbackContacts, primaryContacts, oidCounter,
          pc, body, doc, res, lpc, listOut, lafter, limm, lastSaved>>

postVars == <<pc, body, doc, res>>
listVars == <<lpc, lafter, limm>>

NoBody == MkBody(Undefined, Undefined, Undefined, Undefined, Undefined)
NoDoc  == [_id |-> <<>>]
NoRes  == [status |-> 0, success |-> FALSE, message |-> "", id |-> <<>>,
           submittedAt |-> -1]
NoList == [status |-> 0, success |-> FALSE, data |-> <<>>,
           source |-> "", served |-> "none", after |-> {}, imm |-> 0]

MsgRequired == "Please fill in all required fields."
MsgEmail    == "Please enter a valid email address."
MsgThanks   ==
  "Thank you for your message! We will get back to you within 24 hours."
MsgSorry    ==
  "Sorry, there was an error submitting your message. Please try again later."

\* index.js:85, 94, 177, 188: the four responses of POST /api/contact
Res400(m) == [status |-> 400, success |-> FALSE, message |-> m, id |-> <<>>,
              submittedAt |-> -1]
Res200(id, at) == [status |-> 200, success |-> TRUE, message |-> MsgThanks,
                   id |-> id, submittedAt |-> at]
Res500 == [status |-> 500, success |-> FALSE, message |-> MsgSorry,
           id |-> <<>>, submittedAt |-> -1]

\* the driver's ObjectId, unique per generated document
ObjectId(n) == <<"o", "i", "d">> \o ToString(n)

\* index.js:119-128: the record of the fallback tier.  req is the identity of
\* the JavaScript object (which request created it), not a field of the record.
FallbackRecord(p, b, now, at) ==
  [_id |-> ToString(now), name |-> b.name, email |-> b.email,
   phone |-> b.phone, service |-> b.service, message |-> b.message,
   submittedAt |-> at, status |-> "new", req |-> p]

\* index.js:105-111 with the schema's paths (part_000:3-56): the document
\* Contact.create builds; the schema declares no status path.
PrimaryDocument(p, b, n, at) ==
  [_id |-> ObjectId(n), name |-> CastTrim(b.name), email |-> CastEmail(b.email),
   phone |-> CastTrim(b.phone), service |-> CastTrim(b.service),
   message |-> CastTrim(b.message), submittedAt |-> at, req |-> p]

\* an assignment in place of the push
PushOverwrite(list, rec) == <<rec>>

\* index.js:129  fallbackContacts.push(savedContact)
Push(list, rec) == Append(list, rec)

\* the comparator with its operands exchanged
CompareAscending(a, b) == a.submittedAt - b.submittedAt

\* index.js:207, 211: the comparator handed to Array.prototype.sort
Compare(a, b) == b.submittedAt - a.submittedAt

\* Array.prototype.sort (stable): x goes after every element not after it
RECURSIVE InsertSorted(_, _)
InsertSorted(sorted, x) ==
  IF sorted = <<>> THEN <<x>>
  ELSE IF Compare(Head(sorted), x) <= 0
         THEN <<Head(sorted)>> \o InsertSorted(Tail(sorted), x)
         ELSE <<x>> \o sorted

RECURSIVE ArraySort(_)
ArraySort(s) ==
  IF s = <<>> THEN <<>>
  ELSE InsertSorted(ArraySort(SubSeq(s, 1, Len(s) - 1)), s[Len(s)])

\* the query without its sort
FindUnsorted(s) == s

\* index.js:203  Contact.find().sort({ submittedAt: -1 })
RECURSIVE InsertDescending(_, _)
InsertDescending(sorted, x) ==
  IF sorted = <<>> THEN <<x>>
  ELSE IF Head(sorted).submittedAt >= x.submittedAt
         THEN <<Head(sorted)>> \o InsertDescending(Tail(sorted), x)
         ELSE <<x>> \o sorted

RECURSIVE FindSorted(_)
FindSorted(s) ==
  IF s = <<>> THEN <<>>
  ELSE InsertDescending(FindSorted(SubSeq(s, 1, Len(s) - 1)), s[Len(s)])

\* -------------------------------------------------------------------- Init
\* app.listen's callback has called connectDB: the connection is being opened
Init ==
  /\ readyState = 2
  /\ clock = 1
  /\ fallbackContacts = <<>>
  /\ primaryContacts = <<>>
  /\ oidCounter = 0
  /\ pc = [p \in Reqs |-> "idle"]
  /\ body = [p \in Reqs |-> NoBody]
  /\ doc = [p \in Reqs |-> NoDoc]
  /\ res = [p \in Reqs |-> NoRes]
  /\ lpc = "idle"
  /\ listOut = NoList
  /\ lafter = {}
  /\ limm = 0
  /\ lastSaved = 0

\* ----------------------------------------------------- POST /api/contact
\* request slots are taken in order of arrival
Arrives(p) ==
  /\ pc[p] = "idle"
  /\ \A q \in Reqs : q < p => pc[q] # "idle"

\* index.js:84-89: a required field is missing or empty
PostMissingFields(p, b) ==
  /\ Arrives(p)
  /\ MissingRequired(b)
  /\ pc' = [pc EXCEPT ![p] = "done"]
  /\ body' = [body EXCEPT ![p] = b]
  /\ res' = [res EXCEPT ![p] = Res400(MsgRequired)]
  /\ lastSaved' = 0
  /\ UNCHANGED <<readyState, clock, fallbackContacts, primaryContacts,
                 oidCounter, doc>>
  /\ listOut' = NoList
  /\ UNCHANGED listVars

\* index.js:91-98: the email does not have the x@y.z shape
PostInvalidEmail(p, b) ==
  /\ Arrives(p)
  /\ ~MissingRequired(b)
  /\ ~EmailRegexTest(b.email)
  /\ pc' = [pc EXCEPT ![p] = "done"]
  /\ body' = [body EXCEPT ![p] = b]
  /\ res' = [res EXCEPT ![p] = Res400(MsgEmail)]
  /\ lastSaved' = 0
  /\ UNCHANGED <<readyState, clock, fallbackContacts, primaryContacts,
                 oidCounter, doc>>
  /\ listOut' = NoList
  /\ UNCHANGED listVars

\* index.js:116-131 and 177-184: the catch block appends the record to the
\* fallback list and the handler answers 200.  Date.now() and new Date() are
\* evaluated in the same object literal and read the same millisecond.
FallbackSave(p, b) ==
  \E now \in clock..MaxClock :
    LET rec == FallbackRecord(p, b, now, now)
    IN  /\ clock' = now
        /\ fallbackContacts' = Push(fallbackContacts, rec)
        /\ res' = [res EXCEPT ![p] = Res200(rec._id, rec.submittedAt)]
        /\ pc' = [pc EXCEPT ![p] = "done"]
        /\ lastSaved' = p

\* PostNotConnected without the inner try: 'MongoDB not connected' reaches
\* the outer catch (index.js:186-192)
PostNotConnectedThrows(p, b) ==
  /\ Arrives(p)
  /\ ~MissingRequired(b)
  /\ EmailRegexTest(b.email)
  /\ readyState # 1
  /\ body' = [body EXCEPT ![p] = b]
  /\ res' = [res EXCEPT ![p] = Res500]
  /\ pc' = [pc EXCEPT ![p] = "done"]
  /\ lastSaved' = 0
  /\ listOut' = NoList
  /\ UNCHANGED <<readyState, clock, fallbackContacts, primaryContacts,
                 oidCounter, doc>>
  /\ UNCHANGED listVars

\* index.js:104, 113-115: not connected, the handler throws into its own catch
PostNotConnected(p, b) ==
  /\ Arrives(p)
  /\ ~MissingRequired(b)
  /\ EmailRegexTest(b.email)
  /\ readyState # 1
  /\ body' = [body EXCEPT ![p] = b]
  /\ FallbackSave(p, b)
  /\ UNCHANGED <<readyState, primaryContacts, oidCounter, doc>>
  /\ listOut' = NoList
  /\ UNCHANGED listVars

\* index.js:104-111: connected, Contact.create is called and awaited; the
\* document gets its _id and its submittedAt default when it is built
PostCreateCall(p, b) ==
  /\ Arrives(p)
  /\ ~MissingRequired(b)
  /\ EmailRegexTest(b.email)
  /\ readyState = 1
  /\ body' = [body EXCEPT ![p] = b]
  /\ oidCounter' = oidCounter + 1
  /\ \E now \in clock..MaxClock :
       /\ clock' = now
       /\ doc' = [doc EXCEPT ![p] = PrimaryDocument(p, b, oidCounter + 1, now)]
  /\ pc' = [pc EXCEPT ![p] = "awaitCreate"]
  /\ lastSaved' = 0
  /\ UNCHANGED <<readyState, fallbackContacts, primaryContacts, res>>
  /\ listOut' = NoList
  /\ UNCHANGED listVars

\* CreateResolved with the fallback push outside the catch: the document is
\* inserted and a fallback record is appended as well
CreateResolvedAndFallback(p) ==
  /\ pc[p] = "awaitCreate"
  /\ SchemaValid(body[p])
  /\ primaryContacts' = Append(primaryContacts, doc[p])
  /\ FallbackSave(p, body[p])
  /\ listOut' = NoList
  /\ UNCHANGED <<readyState, oidCounter, body, doc>>
  /\ UNCHANGED listVars

\* index.js:105-112, 177-184: the write succeeded (the document passed the
\* schema's validation and was inserted); the handler answers 200
CreateResolved(p) ==
  /\ pc[p] = "awaitCreate"
  /\ SchemaValid(body[p])
  /\ primaryContacts' = Append(primaryContacts, doc[p])
  /\ res' = [res EXCEPT ![p] = Res200(doc[p]._id, doc[p].submittedAt)]
  /\ pc' = [pc EXCEPT ![p] = "done"]
  /\ lastSaved' = p
  /\ UNCHANGED <<readyState, clock, fallbackContacts, oidCounter, body, doc>>
  /\ listOut' = NoList
  /\ UNCHANGED listVars

\* CreateRejected without the inner try: the error reaches the outer catch
\* (index.js:186-192)
CreateRejectedPropagates(p) ==
  /\ pc[p] = "awaitCreate"
  /\ res' = [res EXCEPT ![p] = Res500]
  /\ pc' = [pc EXCEPT ![p] = "done"]
  /\ lastSaved' = 0
  /\ UNCHANGED <<readyState, clock, fallbackContacts, primaryContacts,
                 oidCounter, body, doc>>
  /\ listOut' = NoList
  /\ UNCHANGED listVars

\* index.js:116-131: Contact.create threw (validation error, timeout, network
\* error); the inner catch saves to the fallback list
CreateRejected(p) ==
  /\ pc[p] = "awaitCreate"
  /\ FallbackSave(p, body[p])
  /\ UNCHANGED <<readyState, primaryContacts, oidCounter, body, doc>>
  /\ listOut' = NoList
  /\ UNCHANGED listVars

\* ----------------------------------------------------- GET /api/contacts
DonePosts == {p \in Reqs : pc[p] = "done"}

\* index.js:215-219: the response of GET /api/contacts, as the event the step
\* emits.  after, imm and served are history: the POST requests answered
\* before this GET began, the save it immediately followed (or 0), and the
\* tier its data was read from.
ListResponse(data, from) ==
  [status |-> 200, success |-> TRUE, data |-> data,
   source |-> IF readyState = 1 THEN "mongodb" ELSE "fallback",
   served |-> from, after |-> lafter, imm |-> limm]

\* index.js:200, 209-219: not connected; the fallback list is sorted in place
\* and returned, and readyState is read again for source
ListNotConnected ==
  /\ lpc = "idle"
  /\ readyState # 1
  /\ fallbackContacts' = ArraySort(fallbackContacts)
  /\ listOut' = [ListResponse(ArraySort(fallbackContacts), "fallback")
                   EXCEPT !.after = DonePosts, !.imm = lastSaved]
  /\ UNCHANGED <<readyState, clock, primaryContacts, oidCounter, lpc, lafter,
                 limm, lastSaved>>
  /\ UNCHANGED postVars

\* index.js:200-203: connected; the sorted query is issued and awaited
ListFindCall ==
  /\ lpc = "idle"
  /\ readyState = 1
  /\ lpc' = "awaitFind"
  /\ lafter' = DonePosts
  /\ limm' = lastSaved
  /\ listOut' = NoList
  /\ UNCHANGED <<readyState, clock, fallbackContacts, primaryContacts,
                 oidCounter, lastSaved>>
  /\ UNCHANGED postVars

\* index.js:203-204, 215-219: the query returned the collection sorted
FindResolved ==
  /\ lpc = "awaitFind"
  /\ listOut' = ListResponse(FindSorted(primaryContacts), "primary")
  /\ lpc' = "idle"
  /\ lafter' = {}
  /\ limm' = 0
  /\ UNCHANGED <<readyState, clock, fallbackContacts, primaryContacts,
                 oidCounter, lastSaved>>
  /\ UNCHANGED postVars

\* index.js:205-208, 215-219: the query threw; the fallback list is sorted in
\* place and returned
FindRejected ==
  /\ lpc = "awaitFind"
  /\ fallbackContacts' = ArraySort(fallbackContacts)
  /\ listOut' = ListResponse(ArraySort(fallbackContacts), "fallback")
  /\ lpc' = "idle"
  /\ lafter' = {}
  /\ limm' = 0
  /\ UNCHANGED <<readyState, clock, primaryContacts, oidCounter, lastSaved>>
  /\ UNCHANGED postVars

\* ------------------------------------------------ connection and the clock
\* index.js:32-40: mongoose.connect resolved
ConnectResolved ==
  /\ readyState = 2
  /\ readyState' = 1
  /\ lastSaved' = 0
  /\ UNCHANGED <<clock, fallbackContacts, primaryContacts, oidCounter>>
  /\ UNCHANGED postVars
  /\ listOut' = NoList
  /\ UNCHANGED listVars

\* index.js:41-44: mongoose.connect rejected; the server keeps running
ConnectFailed ==
  /\ readyState = 2
  /\ readyState' = 0
  /\ lastSaved' = 0
  /\ UNCHANGED <<clock, fallbackContacts, primaryContacts, oidCounter>>
  /\ UNCHANGED postVars
  /\ listOut' = NoList
  /\ UNCHANGED listVars

\* a later connectivity event: the connection is lost
ConnectionLost ==
  /\ readyState = 1
  /\ readyState' = 0
  /\ lastSaved' = 0
  /\ UNCHANGED <<clock, fallbackContacts, primaryContacts, oidCounter>>
  /\ UNCHANGED postVars
  /\ listOut' = NoList
  /\ UNCHANGED listVars

\* a later connectivity event: the driver reconnected
Reconnected ==
  /\ readyState = 0
  /\ readyState' = 1
  /\ lastSaved' = 0
  /\ UNCHANGED <<clock, fallbackContacts, primaryContacts, oidCounter>>
  /\ UNCHANGED postVars
  /\ listOut' = NoList
  /\ UNCHANGED listVars

\* ----------------------------------------------------------- specification
Next ==
  \/ \E p \in Reqs, b \in Bodies : PostMissingFields(p, b)
  \/ \E p \in Reqs, b \in Bodies : PostInvalidEmail(p, b)
  \/ \E p \in Reqs, b \in Bodies : PostNotConnected(p, b)
  \/ \E p \in Reqs, b \in Bodies : PostCreateCall(p, b)
  \/ \E p \in Reqs : CreateResolved(p)
  \/ \E p \in Reqs : CreateRejected(p)
  \/ ListNotConnected
  \/ ListFindCall
  \/ FindResolved
  \/ FindRejected
  \/ ConnectResolved
  \/ ConnectFailed
  \/ ConnectionLost
  \/ Reconnected

Spec == Init /\ [][Next]_vars

\* the POST handler alone, on concurrent requests
NextSave ==
  \/ \E p \in Reqs, b \in Bodies : PostMissingFields(p, b)
  \/ \E p \in Reqs, b \in Bodies : PostInvalidEmail(p, b)
  \/ \E p \in Reqs, b \in Bodies : PostNotConnected(p, b)
  \/ \E p \in Reqs, b \in Bodies : PostCreateCall(p, b)
  \/ \E p \in Reqs : CreateResolved(p)
  \/ \E p \in Reqs : CreateRejected(p)
  \/ ConnectResolved
  \/ ConnectFailed
  \/ ConnectionLost
  \/ Reconnected

SpecSave == Init /\ [][NextSave]_vars

\* saves of accepted submissions followed by listings
ListBodies == {BodyJo}

NextList ==
  \/ \E p \in Reqs, b \in ListBodies : PostNotConnected(p, b)
  \/ \E p \in Reqs, b \in ListBodies : PostCreateCall(p, b)
  \/ \E p \in Reqs : CreateResolved(p)
  \/ \E p \in Reqs : CreateRejected(p)
  \/ ListNotConnected
  \/ ListFindCall
  \/ FindResolved
  \/ FindRejected
  \/ ConnectResolved
  \/ ConnectFailed
  \/ ConnectionLost
  \/ Reconnected

SpecList == Init /\ [][NextList]_vars

\* one request, every combination of field values
Blank       == <<" ", " ">>
OneLetter   == <<"J">>
NoDotEmail  == <<"j","o","@","x">>
SpaceEmail  == <<"j"," ","o","@","x",".","c","o","m">>
ShortTld    == <<"a","@","b",".","c">>
TwoAtEmail  == <<"a","@","b","@","c",".","d","e">>
NoLocalPart == <<"@","x",".","c","o","m">>
ZeroPhone   == <<"0","1">>
Hi          == <<"h","i">>
LongMessage == Rep("a", MessageMaxLength + 1)

Names    == {Undefined, <<>>, Blank, OneLetter, Jo}
Emails   == {Undefined, <<>>, JoEmail, AnnEmail, NotAnEmail, NoDotEmail,
             SpaceEmail, ShortTld, TwoAtEmail, NoLocalPart}
Phones   == {Undefined, AnnPhone, ZeroPhone}
Services == {Undefined, <<>>, CivilWork, Plumbing}
Messages == {Undefined, <<>>, Hi, CallMeBack, LongMessage}

AllBodies ==
  {MkBody(n, e, ph, sv, m) :
     n \in Names, e \in Emails, ph \in Phones, sv \in Services, m \in Messages}

NextValidate ==
  \/ \E b \in AllBodies : PostMissingFields(1, b)
  \/ \E b \in AllBodies : PostInvalidEmail(1, b)
  \/ \E b \in AllBodies : PostNotConnected(1, b)
  \/ \E b \in AllBodies : PostCreateCall(1, b)
  \/ CreateResolved(1)
  \/ CreateRejected(1)
  \/ ConnectResolved
  \/ ConnectFailed
  \/ ConnectionLost
  \/ Reconnected

SpecValidate == Init /\ [][NextValidate]_vars

\* ================================================================== claims
\* vocabulary of the claims, stated on the request's payload and the stores
RequiredFields == {"name", "email", "service", "message"}

AnyRequiredMissing(b) ==
  \E f \in RequiredFields : b[f] = Undefined \/ Len(b[f]) = 0

NonSpace(s) == Len(s) > 0 /\ \A i \in 1..Len(s) : s[i] \notin Whitespace

\* the x@y.z shape: non-space+ @ non-space+ . non-space+
HasXYZShape(e) ==
  \E i \in 2..Len(e) : \E j \in (i + 2)..(Len(e) - 1) :
    /\ e[i] = "@"
    /\ e[j] = "."
    /\ NonSpace(SubSeq(e, 1, i - 1))
    /\ NonSpace(SubSeq(e, i + 1, j - 1))
    /\ NonSpace(SubSeq(e, j + 1, Len(e)))

InFallback(p) == \E i \in 1..Len(fallbackContacts) : fallbackContacts[i].req = p
InPrimary(p)  == \E i \in 1..Len(primaryContacts) : primaryContacts[i].req = p
Untouched(p)  == doc[p] = NoDoc /\ ~InFallback(p) /\ ~InPrimary(p)

\* the request passed both upfront checks (it was not answered 400)
Accepted(p) ==
  /\ pc[p] # "idle"
  /\ ~AnyRequiredMissing(body[p])
  /\ EmailRegexTest(body[p].email)

\* the request found the primary store not connected / connected
SavedNotConnected(p) == Accepted(p) /\ pc[p] = "done" /\ doc[p] = NoDoc
SavedConnected(p)    == Accepted(p) /\ pc[p] = "done" /\ doc[p] # NoDoc

\* the request's record is in the listing; it is the listing's first element
Listed(p)      == \E i \in 1..Len(listOut.data) : listOut.data[i].req = p
ListedFirst(p) == Len(listOut.data) > 0 /\ listOut.data[1].req = p

\* the request's record is strictly the most recent of the listing
MostRecentListed(p) ==
  \E i \in 1..Len(listOut.data) :
    /\ listOut.data[i].req = p
    /\ \A j \in 1..Len(listOut.data) :
         j # i => listOut.data[j].submittedAt < listOut.data[i].submittedAt

TierOf(p) == IF InPrimary(p) THEN "primary" ELSE "fallback"

\* C1: a request with name, email, service or message missing or empty is
\* answered 400 'Please fill in all required fields.' and writes nothing:
\* Contact.create is not called and no record of it is in either store,
\* whatever the connection state.
C1_MissingFieldsRejected ==
  \A p \in Reqs :
    (pc[p] = "done" /\ AnyRequiredMissing(body[p])) =>
      /\ res[p] = Res400(MsgRequired)
      /\ Untouched(p)

C1_Witness ==
  \E p \in Reqs :
    /\ pc[p] = "done"
    /\ body[p].message = <<>>
    /\ ~Falsy(body[p].name) /\ ~Falsy(body[p].email) /\ ~Falsy(body[p].service)
    /\ res[p].status = 400
    /\ readyState = 1
    /\ fallbackContacts = <<>>

\* C2: a request with its four required fields present whose email does not
\* have the x@y.z shape is answered 400 'Please enter a valid email address.'
\* and touches neither store.
C2_InvalidEmailRejected ==
  \A p \in Reqs :
    (pc[p] = "done" /\ ~AnyRequiredMissing(body[p])
       /\ ~HasXYZShape(body[p].email)) =>
      /\ res[p] = Res400(MsgEmail)
      /\ Untouched(p)

C2_Witness ==
  \E p \in Reqs :
    /\ pc[p] = "done"
    /\ body[p].email = NoDotEmail
    /\ ~AnyRequiredMissing(body[p])
    /\ res[p].message = MsgEmail
    /\ readyState = 1

\* the save of a request that found the primary store not connected:
\* answered 200 with a non-empty id, its record in the fallback list
SavedToFallback(p) ==
  /\ res[p].status = 200
  /\ res[p].success
  /\ Len(res[p].id) > 0
  /\ \E i \in 1..Len(fallbackContacts) :
       /\ fallbackContacts[i].req = p
       /\ fallbackContacts[i]._id = res[p].id

\* C3 as claimed: a submission that passes the upfront checks while the
\* primary store is not connected is answered 200 with a non-empty id and
\* appended to the fallback list, and every GET /api/contacts that begins
\* after that answer lists its record, whatever the connection does between.
C3_Original ==
  \A p \in Reqs :
    SavedNotConnected(p) =>
      /\ SavedToFallback(p)
      /\ (listOut.status = 200 /\ p \in listOut.after) => Listed(p)

\* C3 as amended: the same, for every later GET whose data is read from the
\* fallback list (the store not connected when the GET arrives, or its
\* primary read failing).
C3_FallbackSaveListed ==
  \A p \in Reqs :
    SavedNotConnected(p) =>
      /\ SavedToFallback(p)
      /\ (listOut.status = 200 /\ p \in listOut.after
            /\ listOut.served = "fallback") => Listed(p)

\* a record saved while connecting is listed after the connection was
\* established and the primary read failed
C3_Witness ==
  \E p \in Reqs :
    /\ SavedNotConnected(p)
    /\ listOut.status = 200
    /\ p \in listOut.after
    /\ listOut.served = "fallback"
    /\ listOut.source = "mongodb"
    /\ Listed(p)

\* C4 as claimed: a submission that passes the upfront checks while the
\* primary store is connected gets a non-empty id, and the GET /api/contacts
\* sent immediately after the save lists its record, first when it is the
\* most recent, also when the primary write failed and the fallback list
\* took the record.
C4_Original ==
  \A p \in Reqs :
    (SavedConnected(p) /\ res[p].status = 200) =>
      /\ Len(res[p].id) > 0
      /\ (listOut.status = 200 /\ listOut.imm = p) =>
           /\ Listed(p)
           /\ MostRecentListed(p) => ListedFirst(p)

\* C4 as amended: the same, when the GET reads from the tier that stored the
\* record (the primary store after a successful write, the fallback list
\* after a failed one).
C4_SameTierListed ==
  \A p \in Reqs :
    (SavedConnected(p) /\ res[p].status = 200) =>
      /\ Len(res[p].id) > 0
      /\ (listOut.status = 200 /\ listOut.imm = p
            /\ listOut.served = TierOf(p)) =>
           /\ Listed(p)
           /\ MostRecentListed(p) => ListedFirst(p)

\* the write failed, the read failed, and the record is the first of two
C4_Witness ==
  \E p \in Reqs :
    /\ SavedConnected(p)
    /\ InFallback(p)
    /\ listOut.status = 200
    /\ listOut.imm = p
    /\ listOut.served = "fallback"
    /\ Len(listOut.data) >= 2
    /\ MostRecentListed(p)
    /\ ListedFirst(p)

\* Contact.create was called for the request and left no document: it threw
WriteFailed(p) == pc[p] = "done" /\ doc[p] # NoDoc /\ ~InPrimary(p)

\* a synthetic id: the decimal digits of a clock reading
Synthetic(id) == Len(id) > 0 /\ \A i \in 1..Len(id) : id[i] \in Digits

\* C5: when the store is connected and the primary write throws (timeout,
\* validation rejection such as an out-of-enum service, network error), the
\* error does not reach the caller: the submission is appended to the
\* fallback list with a synthetic id and status 'new' and the answer is 200;
\* no request is answered 500.
C5_WriteFailureAbsorbed ==
  \A p \in Reqs :
    /\ res[p].status # 500
    /\ WriteFailed(p) =>
         /\ res[p].status = 200
         /\ \E i \in 1..Len(fallbackContacts) :
              /\ fallbackContacts[i].req = p
              /\ fallbackContacts[i]._id = res[p].id
              /\ Synthetic(fallbackContacts[i]._id)
              /\ fallbackContacts[i].status = "new"

\* an out-of-enum service was rejected by the schema while connected
C5_Witness ==
  \E p \in Reqs :
    /\ WriteFailed(p)
    /\ body[p] = BodyPlumbing
    /\ ~SchemaValid(body[p])
    /\ res[p].status = 200
    /\ InFallback(p)
    /\ readyState = 1

\* C6: no two records of the fallback list share an id, also when two saves
\* happen in the same millisecond.
C6_DistinctIds ==
  \A i, j \in 1..Len(fallbackContacts) :
    i # j => fallbackContacts[i]._id # fallbackContacts[j]._id

\* C7: every created submission has status 'new', in the primary store as in
\* the fallback list.
C7_StatusNewInBothTiers ==
  /\ \A i \in 1..Len(fallbackContacts) :
       /\ "status" \in DOMAIN fallbackContacts[i]
       /\ fallbackContacts[i].status = "new"
  /\ \A i \in 1..Len(primaryContacts) :
       /\ "status" \in DOMAIN primaryContacts[i]
       /\ primaryContacts[i].status = "new"

\* C8: the fallback list is ordered by non-decreasing submittedAt (insertion
\* order) in every reachable state; a listing does not reorder it.
C8_FallbackInsertionOrder ==
  \A i, j \in 1..Len(fallbackContacts) :
    i < j => fallbackContacts[i].submittedAt <= fallbackContacts[j].submittedAt

\* C9: every listing is in non-increasing submittedAt order, whether read
\* from the primary store, from the fallback list after a failed primary
\* read, or from the fallback list when not connected.
C9_ListingSortedDescending ==
  listOut.status = 200 =>
    \A i, j \in 1..Len(listOut.data) :
      i < j => listOut.data[i].submittedAt >= listOut.data[j].submittedAt

\* a listing of the fallback list whose two records differ in time
C9_Witness ==
  /\ listOut.status = 200
  /\ listOut.served = "fallback"
  /\ Len(listOut.data) >= 2
  /\ listOut.data[1].submittedAt > listOut.data[2].submittedAt

\* the requests that degraded to the fallback tier and were answered
Degraded == {p \in Reqs : pc[p] = "done" /\ res[p].status = 200 /\ ~InPrimary(p)}

OwnFields(rec, p) ==
  /\ rec.name = body[p].name
  /\ rec.email = body[p].email
  /\ rec.phone = body[p].phone
  /\ rec.service = body[p].service
  /\ rec.message = body[p].message

\* C10: for any interleaving of concurrent POST requests that pass validation
\* and degrade to the fallback tier, the fallback list holds exactly one
\* record per answered request, with that request's own fields: no append is
\* lost or overwritten.
C10_NoLostAppend ==
  /\ Len(fallbackContacts) = Cardinality(Degraded)
  /\ \A p \in Degraded :
       /\ Cardinality({i \in 1..Len(fallbackContacts) :
                         fallbackContacts[i].req = p}) = 1
       /\ \A i \in 1..Len(fallbackContacts) :
            fallbackContacts[i].req = p => OwnFields(fallbackContacts[i], p)

\* every request was suspended at the awaited write, all degraded, and the
\* request that arrived first was appended last
C10_Witness ==
  /\ \A p \in Reqs : WriteFailed(p) /\ res[p].status = 200
  /\ Len(fallbackContacts) = MaxReq
  /\ fallbackContacts[MaxReq].req = 1
  /\ \E p, q \in Reqs : body[p] # body[q]

\* the records a request has in each store
FallbackRecordsOf(p) ==
  {i \in 1..Len(fallbackContacts) : fallbackContacts[i].req = p}

PrimaryRecordsOf(p) ==
  {i \in 1..Len(primaryContacts) : primaryContacts[i].req = p}

\* the response carries the id and the submittedAt of the record
Answers(p, rec) ==
  /\ res[p].id = rec._id
  /\ res[p].submittedAt = rec.submittedAt

\* C11: each submission answered 200 is created exactly once, in exactly one
\* tier: in the primary store with nothing appended to the fallback list when
\* the primary write succeeded, else as exactly one fallback record (the
\* write not attempted, or attempted once and failed); the response carries
\* that record's id and submittedAt; a request not answered 200 has no record;
\* and, the answer being permanent, no record ever leaves the fallback list.
C11_CreatedExactlyOnce ==
  /\ \A p \in Reqs :
       IF res[p].status = 200
         THEN /\ Cardinality(FallbackRecordsOf(p))
                   + Cardinality(PrimaryRecordsOf(p)) = 1
              /\ \A i \in PrimaryRecordsOf(p) :
                   /\ doc[p] = primaryContacts[i]
                   /\ Answers(p, primaryContacts[i])
              /\ \A i \in FallbackRecordsOf(p) :
                   Answers(p, fallbackContacts[i])
         ELSE FallbackRecordsOf(p) = {} /\ PrimaryRecordsOf(p) = {}
  /\ \A i \in 1..Len(fallbackContacts) : fallbackContacts[i].req \in Reqs
  /\ \A i \in 1..Len(primaryContacts) : primaryContacts[i].req \in Reqs

\* one submission is in the primary store, another was attempted there,
\* failed and is in the fallback list, which a listing has since sorted
C11_Witness ==
  \E p, q \in Reqs :
    /\ res[p].status = 200 /\ InPrimary(p) /\ ~InFallback(p)
    /\ res[q].status = 200 /\ WriteFailed(q) /\ InFallback(q)
    /\ listOut.status = 200
    /\ listOut.served = "fallback"
    /\ Listed(q)

\* C12: in every GET /api/contacts response the source field names the tier
\* the data was read from: 'fallback' exactly when the data is the fallback
\* list, the primary store exactly when the data is the primary read, also
\* when the connection state changes during the request.
C12_SourceNamesTier ==
  listOut.status = 200 =>
    /\ (listOut.source = "fallback") <=> (listOut.served = "fallback")
    /\ (listOut.source = "mongodb") <=> (listOut.served = "primary")

====
